---- MODULE Spec2Model ----
(***************************************************************************)
(* Model of src/Native/LibTorchSharp/THSConvolution.cpp: the C-linkage     *)
(* boundary that exposes the tensor library's pooling, padding,            *)
(* convolution and transposed-convolution modules.                         *)
(*                                                                         *)
(* The state is the heap of constructed modules and their type-erased      *)
(* views, the process-wide last-error slot, the caller's output slots and  *)
(* the outcome of the last exported call.  Every exported function is an   *)
(* action; the option records the constructors build are operators.        *)
(***************************************************************************)
EXTENDS Integers, Sequences, FiniteSets, TLC

VARIABLES
    modules,         \* heap of module instances; a module handle is an index
    anyModules,      \* heap of type-erased views; entry = the module it wraps
    torch_last_err,  \* the process-wide last-error slot
    call,            \* the last exported call and its arguments
    opts,            \* the options record the last constructor call built
    ret,             \* what the last call returned to the caller
    outAnySlot,      \* the caller's NNAnyModule slot (outAsAnyModule target)
    indicesSlot      \* the caller's Tensor slot (indices target)

vars == <<modules, anyModules, torch_last_err, call, opts, ret, outAnySlot, indicesSlot>>

----------------------------------------------------------------------------
(* Bounds of the model.                                                    *)

MaxModules == 1      \* modules the heap may hold
MaxSize == 2         \* kernel, stride, dilation, channel and group values
MaxPadding == 2      \* largest padding width passed by a caller

----------------------------------------------------------------------------
(* Values crossing the boundary.                                           *)

NULL == 0                                  \* nullptr, for handles and arrays
NullArray == <<>>                          \* a null int64_t* argument

LibDefault == [kind |-> "default", values |-> <<>>]   \* option left untouched
Arr(s)     == [kind |-> "array", values |-> s]        \* ExpandingArray value
kSame      == [kind |-> "kSame", values |-> <<>>]     \* torch::kSame
kValid     == [kind |-> "kValid", values |-> <<>>]    \* torch::kValid

kZeros     == "kZeros"
kReflect   == "kReflect"
kReplicate == "kReplicate"
kCircular  == "kCircular"

NoOpts == [family |-> "none"]

(* Outcome of the statements inside a catch boundary, up to the call of    *)
(* create_module: the options built, or the fault the library raised.      *)
Built(o)  == [raised |-> FALSE, what |-> "", opts |-> o]
Thrown(w) == [raised |-> TRUE, what |-> w, opts |-> NoOpts]

(* at::ArrayRef<int64_t>(p, n): the first n elements behind p.             *)
ArrayRef(p, n) == SubSeq(p, 1, n)

(* torch::ExpandingArray<D>(v): one scalar repeated on every axis.         *)
ExpandingArray(D, v) == [i \in 1..D |-> v]

(* torch::ExpandingArray<D>(at::ArrayRef): the library checks the length.  *)
ExpandingArrayRaises(D, a) == Len(a) # D

----------------------------------------------------------------------------
(* Option records of the pooling and padding constructors: the statements  *)
(* of each constructor that come before create_module.                     *)

WrongLength == "Expected D values, but instead got another count"

(* THSNN_AvgPool2d_ctor, THSNN_AvgPool3d_ctor (D = 2, 3).                  *)
AvgPool_opts(D, kernelSize, kernelSizeLength, stride, strideLength) ==
    LET k == ArrayRef(kernelSize, kernelSizeLength)
        s == ArrayRef(stride, strideLength)
    IN  IF ExpandingArrayRaises(D, k) THEN Thrown(WrongLength)
        ELSE IF stride # NullArray /\ ExpandingArrayRaises(D, s) THEN Thrown(WrongLength)
        ELSE Built([family |-> "AvgPool", D |-> D,
                    kernel_size |-> Arr(k),
                    stride |-> IF stride # NullArray THEN Arr(s) ELSE LibDefault])

(* THSNN_AvgPool1d_ctor: both arrays are read with the fixed length 1.     *)
AvgPool1d_opts(kernelSize, stride) ==
    LET k == ArrayRef(kernelSize, 1)
        s == ArrayRef(stride, 1)
    IN  Built([family |-> "AvgPool", D |-> 1,
               kernel_size |-> Arr(k),
               stride |-> IF stride # NullArray THEN Arr(s) ELSE LibDefault])

(* THSNN_AdaptiveAvgPool{1,2,3}d_ctor and THSNN_AdaptiveMaxPool{1,2,3}d_ctor. *)
AdaptivePool_opts(family, D, kernelSize, kernelSizeLength) ==
    LET k == ArrayRef(kernelSize, kernelSizeLength)
    IN  IF ExpandingArrayRaises(D, k) THEN Thrown(WrongLength)
        ELSE Built([family |-> family, D |-> D, output_size |-> Arr(k)])

(* Variant of MaxPool_opts whose padding is applied under the test of      *)
(* stride.                                                                 *)
MaxPool_opts_strideGuardsPadding(D, kernelSize, kernelSizeLength, stride, strideLength, padding, paddingLength, dilation, dilationLength, ceil_mode) ==
    LET k  == ArrayRef(kernelSize, kernelSizeLength)
        s  == ArrayRef(stride, strideLength)
        p  == ArrayRef(padding, paddingLength)
        d  == ArrayRef(dilation, dilationLength)
    IN  IF ExpandingArrayRaises(D, k) THEN Thrown(WrongLength)
        ELSE IF stride # NullArray /\ ExpandingArrayRaises(D, s) THEN Thrown(WrongLength)
        ELSE IF stride # NullArray /\ ExpandingArrayRaises(D, p) THEN Thrown(WrongLength)
        ELSE IF dilation # NullArray /\ ExpandingArrayRaises(D, d) THEN Thrown(WrongLength)
        ELSE Built([family |-> "MaxPool", D |-> D,
                    kernel_size |-> Arr(k),
                    ceil_mode |-> ceil_mode,
                    stride |-> IF stride # NullArray THEN Arr(s) ELSE LibDefault,
                    padding |-> IF stride # NullArray THEN Arr(p) ELSE LibDefault,
                    dilation |-> IF dilation # NullArray THEN Arr(d) ELSE LibDefault])

(* THSNN_MaxPool2d_ctor, THSNN_MaxPool3d_ctor (D = 2, 3).                  *)
MaxPool_opts(D, kernelSize, kernelSizeLength, stride, strideLength, padding, paddingLength, dilation, dilationLength, ceil_mode) ==
    LET k  == ArrayRef(kernelSize, kernelSizeLength)
        s  == ArrayRef(stride, strideLength)
        p  == ArrayRef(padding, paddingLength)
        d  == ArrayRef(dilation, dilationLength)
    IN  IF ExpandingArrayRaises(D, k) THEN Thrown(WrongLength)
        ELSE IF stride # NullArray /\ ExpandingArrayRaises(D, s) THEN Thrown(WrongLength)
        ELSE IF padding # NullArray /\ ExpandingArrayRaises(D, p) THEN Thrown(WrongLength)
        ELSE IF dilation # NullArray /\ ExpandingArrayRaises(D, d) THEN Thrown(WrongLength)
        ELSE Built([family |-> "MaxPool", D |-> D,
                    kernel_size |-> Arr(k),
                    ceil_mode |-> ceil_mode,
                    stride |-> IF stride # NullArray THEN Arr(s) ELSE LibDefault,
                    padding |-> IF padding # NullArray THEN Arr(p) ELSE LibDefault,
                    dilation |-> IF dilation # NullArray THEN Arr(d) ELSE LibDefault])

(* THSNN_MaxPool1d_ctor: every array is read with the fixed length 1.      *)
MaxPool1d_opts(kernelSize, stride, padding, dilation, ceil_mode) ==
    Built([family |-> "MaxPool", D |-> 1,
           kernel_size |-> Arr(ArrayRef(kernelSize, 1)),
           ceil_mode |-> ceil_mode,
           stride |-> IF stride # NullArray THEN Arr(ArrayRef(stride, 1)) ELSE LibDefault,
           padding |-> IF padding # NullArray THEN Arr(ArrayRef(padding, 1)) ELSE LibDefault,
           dilation |-> IF dilation # NullArray THEN Arr(ArrayRef(dilation, 1)) ELSE LibDefault])

(* THSNN_ZeroPad2d_ctor: one width for the four sides.                     *)
ZeroPad2d_opts(padding) ==
    Built([family |-> "ZeroPad", D |-> 2,
           padding |-> Arr(ExpandingArray(2 * 2, padding))])

(* THSNN_ConstantPad{1,2,3}d_ctor: one width for the 2*D sides, and the fill. *)
ConstantPad_opts(D, value, padding) ==
    Built([family |-> "ConstantPad", D |-> D,
           padding |-> Arr(ExpandingArray(2 * D, padding)),
           value |-> value])

(* THSNN_ReplicationPad{1,2,3}d_ctor.                                      *)
ReplicationPad_opts(D, padding) ==
    Built([family |-> "ReplicationPad", D |-> D,
           padding |-> Arr(ExpandingArray(2 * D, padding))])

(* THSNN_ReflectionPad{1,2,3}d_ctor.                                       *)
ReflectionPad_opts(D, padding) ==
    Built([family |-> "ReflectionPad", D |-> D,
           padding |-> Arr(ExpandingArray(2 * D, padding))])

----------------------------------------------------------------------------
(* Option records of the convolution constructors.                         *)

(* Variant of ApplyPaddingMode with reflect and replicate exchanged.        *)
ApplyPaddingMode_swapped(o, padding) ==
    LET o0 == IF padding = 0 THEN [o  EXCEPT !.padding_mode = kZeros] ELSE o
        o1 == IF padding = 1 THEN [o0 EXCEPT !.padding_mode = kReplicate] ELSE o0
        o2 == IF padding = 2 THEN [o1 EXCEPT !.padding_mode = kReflect] ELSE o1
        o3 == IF padding = 3 THEN [o2 EXCEPT !.padding_mode = kCircular] ELSE o2
    IN  o3

(* Variant of ApplyPaddingMode that, when it sets a fill mode, also resets  *)
(* the padding slot to zero widths.                                        *)
ApplyPaddingMode_resetsPadding(o, padding) ==
    LET zero == Arr([i \in 1..o.D |-> 0])
        o0 == IF padding = 0 THEN [o  EXCEPT !.padding_mode = kZeros, !.padding = zero] ELSE o
        o1 == IF padding = 1 THEN [o0 EXCEPT !.padding_mode = kReflect, !.padding = zero] ELSE o0
        o2 == IF padding = 2 THEN [o1 EXCEPT !.padding_mode = kReplicate, !.padding = zero] ELSE o1
        o3 == IF padding = 3 THEN [o2 EXCEPT !.padding_mode = kCircular, !.padding = zero] ELSE o2
    IN  o3

(* Variant of ApplyPaddingMode that clamps a value outside the enum to the *)
(* nearest mode.                                                           *)
ApplyPaddingMode_clamped(o, padding) ==
    LET o0 == IF padding <= 0 THEN [o  EXCEPT !.padding_mode = kZeros] ELSE o
        o1 == IF padding = 1 THEN [o0 EXCEPT !.padding_mode = kReflect] ELSE o0
        o2 == IF padding = 2 THEN [o1 EXCEPT !.padding_mode = kReplicate] ELSE o1
        o3 == IF padding >= 3 THEN [o2 EXCEPT !.padding_mode = kCircular] ELSE o2
    IN  o3

(* ApplyPaddingMode: four independent tests on the enum value.             *)
ApplyPaddingMode(o, padding) ==
    LET o0 == IF padding = 0 THEN [o  EXCEPT !.padding_mode = kZeros] ELSE o
        o1 == IF padding = 1 THEN [o0 EXCEPT !.padding_mode = kReflect] ELSE o0
        o2 == IF padding = 2 THEN [o1 EXCEPT !.padding_mode = kReplicate] ELSE o1
        o3 == IF padding = 3 THEN [o2 EXCEPT !.padding_mode = kCircular] ELSE o2
    IN  o3

(* torch::nn::ConvOptions<D>(in, out, kernel) followed by the setters the  *)
(* constructors chain: every slot is set by the adapter except             *)
(* padding_mode, which stays the library's until ApplyPaddingMode.         *)
ConvOptions(D, inputChannel, outputChannel, kernel, stride, padd, dilation, groups, bias) ==
    [family |-> "Conv", D |-> D,
     in_channels |-> inputChannel, out_channels |-> outputChannel,
     kernel_size |-> Arr(kernel), stride |-> Arr(stride), padding |-> padd,
     dilation |-> Arr(dilation), groups |-> groups, bias |-> bias,
     padding_mode |-> "LibDefault"]

(* Variant of Conv1d_padd that recognises no sentinel.                     *)
Conv1d_padd_numeric(padding) == Arr(ExpandingArray(1, padding))

(* THSNN_Conv1d_ctor: -1 selects "same"; every other value is a width.     *)
Conv1d_padd(padding) ==
    IF padding = -1 THEN kSame ELSE Arr(ExpandingArray(1, padding))

Conv1d_opts(inputChannel, outputChannel, kernelSize, stride, padding, dilation, paddingMode, groups, bias) ==
    Built(ApplyPaddingMode(
        ConvOptions(1, inputChannel, outputChannel, ExpandingArray(1, kernelSize),
                    ExpandingArray(1, stride), Conv1d_padd(padding),
                    ExpandingArray(1, dilation), groups, bias),
        paddingMode))

(* Variant of Conv_padd without the "valid" sentinel, as in Conv1d.         *)
Conv_padd_noValid(D, padding) ==
    IF padding = -1 THEN kSame ELSE Arr(ExpandingArray(D, padding))

(* THSNN_Conv2d_ctor, THSNN_Conv3d_ctor (D = 2, 3): -1 selects "same",     *)
(* 0 selects "valid", every other value is a width on all axes.            *)
Conv_padd(D, padding) ==
    IF padding = -1 THEN kSame
    ELSE IF padding = 0 THEN kValid
    ELSE Arr(ExpandingArray(D, padding))

Conv_opts(D, inputChannel, outputChannel, kernelSize, stride, padding, dilation, paddingMode, groups, bias) ==
    Built(ApplyPaddingMode(
        ConvOptions(D, inputChannel, outputChannel, ExpandingArray(D, kernelSize),
                    ExpandingArray(D, stride), Conv_padd(D, padding),
                    ExpandingArray(D, dilation), groups, bias),
        paddingMode))

(* Variant of Conv2d_padd_1 that takes a sentinel only when both axes      *)
(* carry it.                                                               *)
Conv2d_padd_1_allAxes(paddingX, paddingY) ==
    IF paddingX = -1 /\ paddingY = -1 THEN kSame
    ELSE IF paddingX = 0 /\ paddingY = 0 THEN kValid
    ELSE Arr(<<paddingX, paddingY>>)

(* THSNN_Conv2d_ctor_1: the policy is chosen from paddingX.                *)
Conv2d_padd_1(paddingX, paddingY) ==
    IF paddingX = -1 THEN kSame
    ELSE IF paddingX = 0 THEN kValid
    ELSE Arr(<<paddingX, paddingY>>)

Conv2d_opts_1(inputChannel, outputChannel, kernelX, kernelY, strideX, strideY, paddingX, paddingY, dilationX, dilationY, paddingMode, groups, bias) ==
    Built(ApplyPaddingMode(
        ConvOptions(2, inputChannel, outputChannel, <<kernelX, kernelY>>,
                    <<strideX, strideY>>, Conv2d_padd_1(paddingX, paddingY),
                    <<dilationX, dilationY>>, groups, bias),
        paddingMode))

(* THSNN_Conv3d_ctor_1.                                                    *)
Conv3d_padd_1(paddingX, paddingY, paddingZ) ==
    IF paddingX = -1 THEN kSame
    ELSE IF paddingX = 0 THEN kValid
    ELSE Arr(<<paddingX, paddingY, paddingZ>>)

Conv3d_opts_1(inputChannel, outputChannel, kernelX, kernelY, kernelZ, strideX, strideY, strideZ, paddingX, paddingY, paddingZ, dilationX, dilationY, dilationZ, paddingMode, groups, bias) ==
    Built(ApplyPaddingMode(
        ConvOptions(3, inputChannel, outputChannel, <<kernelX, kernelY, kernelZ>>,
                    <<strideX, strideY, strideZ>>,
                    Conv3d_padd_1(paddingX, paddingY, paddingZ),
                    <<dilationX, dilationY, dilationZ>>, groups, bias),
        paddingMode))

(* THSNN_ConvTranspose{1,2,3}d_ctor: padding and output_padding are always *)
(* numeric widths; no sentinel is recognised.                              *)
ConvTranspose_opts(D, inputChannel, outputChannel, kernelSize, stride, padding, output_padding, dilation, paddingMode, groups, bias) ==
    Built(ApplyPaddingMode(
        [family |-> "ConvTranspose", D |-> D,
         in_channels |-> inputChannel, out_channels |-> outputChannel,
         kernel_size |-> Arr(ExpandingArray(D, kernelSize)),
         stride |-> Arr(ExpandingArray(D, stride)),
         padding |-> Arr(ExpandingArray(D, padding)),
         dilation |-> Arr(ExpandingArray(D, dilation)),
         groups |-> groups, bias |-> bias,
         output_padding |-> Arr(ExpandingArray(D, output_padding)),
         padding_mode |-> "LibDefault"],
        paddingMode))

----------------------------------------------------------------------------
(* Tensors and modules as the boundary sees them.                          *)

(* A tensor is known by where it came from, the module that owns or made   *)
(* it, and its shape (rank and channel count).                             *)
Undefined == [src |-> "undefined", owner |-> NULL, rank |-> 0, channels |-> 0]

CallerTensor(rank, channels) ==
    [src |-> "caller", owner |-> NULL, rank |-> rank, channels |-> channels]

(* A Tensor handle: a boxed reference to a tensor, or nullptr.             *)
NullTensor == [null |-> TRUE, tensor |-> Undefined]
Handle(t)  == [null |-> FALSE, tensor |-> t]

(* ResultTensor: box a defined tensor, give nullptr for an undefined one.  *)
ResultTensor(t) == IF t = Undefined THEN NullTensor ELSE Handle(t)

IsConvFamily(family) == family \in {"Conv", "ConvTranspose"}

(* The module instance the library constructs from an options record: its *)
(* parameters are fresh tensors owned by the module, bias only if asked.   *)
NewModule(o, h) ==
    [family |-> o.family, D |-> o.D, options |-> o,
     weight |-> IF IsConvFamily(o.family)
                THEN [src |-> "weight", owner |-> h, rank |-> o.D + 2, channels |-> o.in_channels]
                ELSE Undefined,
     bias |-> IF IsConvFamily(o.family) /\ o.bias
              THEN [src |-> "bias", owner |-> h, rank |-> 1, channels |-> o.out_channels]
              ELSE Undefined]

(* Faults of the wrapped library.  Module construction rejects invalid     *)
(* option combinations: channel counts the groups do not divide, and       *)
(* "same" padding on a strided convolution.                                *)
InvalidOptions == "module construction: invalid option combination"

ModuleCtorRaises(o) ==
    /\ IsConvFamily(o.family)
    /\ \/ o.in_channels % o.groups # 0
       \/ o.out_channels % o.groups # 0
       \/ /\ o.padding = kSame
          /\ \E i \in 1..o.D : o.stride.values[i] # 1

(* Forward evaluation rejects an input of the wrong rank or, for a         *)
(* convolution, of the wrong channel count.                                *)
ShapeMismatch == "forward: input shape does not match the module"

ForwardRaises(m, t) ==
    \/ t.rank # m.D + 2
    \/ IsConvFamily(m.family) /\ t.channels # m.options.in_channels

(* What the library's forward returns: a new tensor made by the module.    *)
ForwardOutput(h, m, t) ==
    [src |-> "output", owner |-> h, rank |-> t.rank,
     channels |-> IF IsConvFamily(m.family) THEN m.options.out_channels ELSE t.channels]

ForwardIndices(h, m, t) ==
    [src |-> "indices", owner |-> h, rank |-> t.rank, channels |-> t.channels]

----------------------------------------------------------------------------
(* The fault boundary shared by every exported function.                   *)

NoError == ""
NoCall  == [op |-> "none", kind |-> "none"]

(* What a call hands back: whether it faulted, whether the fault escaped   *)
(* to the caller as a native fault, and the returned handle or message.    *)
Returned(fault, module, tensor) ==
    [fault |-> fault, escaped |-> FALSE, module |-> module, tensor |-> tensor, message |-> NoError]

(* create_module: construct the module on the heap and, when the caller    *)
(* supplied outAsAnyModule, a type-erased view wrapping that same module.  *)
create_module(o, outAsAnyModule) ==
    LET h == Len(modules) + 1
    IN  /\ modules' = Append(modules, NewModule(o, h))
        /\ IF outAsAnyModule
           THEN /\ anyModules' = Append(anyModules, [module |-> h])
                /\ outAnySlot' = Len(anyModules) + 1
           ELSE UNCHANGED <<anyModules, outAnySlot>>
        /\ ret' = Returned(FALSE, h, NullTensor)

(* CATCH_RETURN_NNModule: res starts as nullptr; a fault raised while the  *)
(* options are built or the module is constructed is caught, its           *)
(* description stored in torch_last_err, and nullptr returned.             *)
CATCH_RETURN_NNModule(op, args, built, outAsAnyModule) ==
    LET raises == built.raised \/ ModuleCtorRaises(built.opts)
    IN  /\ raises \/ Len(modules) < MaxModules
        /\ call' = [op |-> op, kind |-> "ctor", args |-> args, outAsAnyModule |-> outAsAnyModule]
        /\ opts' = built.opts
        /\ IF raises
           THEN /\ torch_last_err' = IF built.raised THEN built.what ELSE InvalidOptions
                /\ ret' = Returned(TRUE, NULL, NullTensor)
                /\ UNCHANGED <<modules, anyModules, outAnySlot>>
           ELSE /\ create_module(built.opts, outAsAnyModule)
                /\ UNCHANGED torch_last_err
        /\ UNCHANGED indicesSlot

(* CATCH_TENSOR: res starts undefined; a fault raised by the expression is *)
(* caught and stored, and the result goes through ResultTensor.            *)
CATCH_TENSOR(raises, what, value) ==
    /\ torch_last_err' = IF raises THEN what ELSE torch_last_err
    /\ ret' = Returned(raises, NULL, ResultTensor(IF raises THEN Undefined ELSE value))

----------------------------------------------------------------------------
(* The exported constructors.                                              *)

THSNN_AvgPool1d_ctor(kernelSize, stride, outAsAnyModule) ==
    CATCH_RETURN_NNModule("THSNN_AvgPool1d_ctor",
        [D |-> 1, kernelSize |-> kernelSize, stride |-> stride],
        AvgPool1d_opts(kernelSize, stride), outAsAnyModule)

(* THSNN_AvgPool2d_ctor and THSNN_AvgPool3d_ctor.                          *)
THSNN_AvgPoolNd_ctor(D, kernelSize, kernelSizeLength, stride, strideLength, outAsAnyModule) ==
    CATCH_RETURN_NNModule("THSNN_AvgPoolNd_ctor",
        [D |-> D, kernelSize |-> kernelSize, kernelSizeLength |-> kernelSizeLength,
         stride |-> stride, strideLength |-> strideLength],
        AvgPool_opts(D, kernelSize, kernelSizeLength, stride, strideLength), outAsAnyModule)

(* THSNN_AdaptiveAvgPool1d_ctor, 2d, 3d.                                   *)
THSNN_AdaptiveAvgPoolNd_ctor(D, kernelSize, kernelSizeLength, outAsAnyModule) ==
    CATCH_RETURN_NNModule("THSNN_AdaptiveAvgPoolNd_ctor",
        [D |-> D, kernelSize |-> kernelSize, kernelSizeLength |-> kernelSizeLength],
        AdaptivePool_opts("AdaptiveAvgPool", D, kernelSize, kernelSizeLength), outAsAnyModule)

(* THSNN_AdaptiveMaxPool1d_ctor, 2d, 3d.                                   *)
THSNN_AdaptiveMaxPoolNd_ctor(D, kernelSize, kernelSizeLength, outAsAnyModule) ==
    CATCH_RETURN_NNModule("THSNN_AdaptiveMaxPoolNd_ctor",
        [D |-> D, kernelSize |-> kernelSize, kernelSizeLength |-> kernelSizeLength],
        AdaptivePool_opts("AdaptiveMaxPool", D, kernelSize, kernelSizeLength), outAsAnyModule)

THSNN_MaxPool1d_ctor(kernelSize, stride, padding, dilation, ceil_mode, outAsAnyModule) ==
    CATCH_RETURN_NNModule("THSNN_MaxPool1d_ctor",
        [D |-> 1, kernelSize |-> kernelSize, stride |-> stride, padding |-> padding,
         dilation |-> dilation, ceil_mode |-> ceil_mode],
        MaxPool1d_opts(kernelSize, stride, padding, dilation, ceil_mode), outAsAnyModule)

(* THSNN_MaxPool2d_ctor and THSNN_MaxPool3d_ctor.                          *)
THSNN_MaxPoolNd_ctor(D, kernelSize, kernelSizeLength, stride, strideLength, padding, paddingLength, dilation, dilationLength, ceil_mode, outAsAnyModule) ==
    CATCH_RETURN_NNModule("THSNN_MaxPoolNd_ctor",
        [D |-> D, kernelSize |-> kernelSize, kernelSizeLength |-> kernelSizeLength,
         stride |-> stride, strideLength |-> strideLength,
         padding |-> padding, paddingLength |-> paddingLength,
         dilation |-> dilation, dilationLength |-> dilationLength, ceil_mode |-> ceil_mode],
        MaxPool_opts(D, kernelSize, kernelSizeLength, stride, strideLength,
                     padding, paddingLength, dilation, dilationLength, ceil_mode),
        outAsAnyModule)

(* Variant of THSNN_ZeroPad2d_ctor that does not hand outAsAnyModule on to  *)
(* create_module.                                                          *)
THSNN_ZeroPad2d_ctor_noView(padding, outAsAnyModule) ==
    /\ Len(modules) < MaxModules
    /\ call' = [op |-> "THSNN_ZeroPad2d_ctor", kind |-> "ctor",
                args |-> [D |-> 2, padding |-> padding], outAsAnyModule |-> outAsAnyModule]
    /\ opts' = ZeroPad2d_opts(padding).opts
    /\ create_module(ZeroPad2d_opts(padding).opts, FALSE)
    /\ UNCHANGED <<torch_last_err, indicesSlot>>

THSNN_ZeroPad2d_ctor(padding, outAsAnyModule) ==
    CATCH_RETURN_NNModule("THSNN_ZeroPad2d_ctor", [D |-> 2, padding |-> padding],
        ZeroPad2d_opts(padding), outAsAnyModule)

(* THSNN_ConstantPad1d_ctor, 2d, 3d.                                       *)
THSNN_ConstantPadNd_ctor(D, value, padding, outAsAnyModule) ==
    CATCH_RETURN_NNModule("THSNN_ConstantPadNd_ctor",
        [D |-> D, value |-> value, padding |-> padding],
        ConstantPad_opts(D, value, padding), outAsAnyModule)

(* THSNN_ReplicationPad1d_ctor, 2d, 3d.                                    *)
THSNN_ReplicationPadNd_ctor(D, padding, outAsAnyModule) ==
    CATCH_RETURN_NNModule("THSNN_ReplicationPadNd_ctor", [D |-> D, padding |-> padding],
        ReplicationPad_opts(D, padding), outAsAnyModule)

(* THSNN_ReflectionPad1d_ctor, 2d, 3d.                                     *)
THSNN_ReflectionPadNd_ctor(D, padding, outAsAnyModule) ==
    CATCH_RETURN_NNModule("THSNN_ReflectionPadNd_ctor", [D |-> D, padding |-> padding],
        ReflectionPad_opts(D, padding), outAsAnyModule)

(* The arguments the scalar convolution constructors share.                *)
ConvArgs(D, inputChannel, outputChannel, kernelSize, stride, padding, dilation, paddingMode, groups, bias) ==
    [D |-> D, inputChannel |-> inputChannel, outputChannel |-> outputChannel,
     kernelSize |-> kernelSize, stride |-> stride, padding |-> padding,
     dilation |-> dilation, paddingMode |-> paddingMode, groups |-> groups, bias |-> bias]

(* Variant of THSNN_Conv1d_ctor with create_module outside the catch       *)
(* boundary: a construction fault leaves the function as a native fault.   *)
THSNN_Conv1d_ctor_unguarded(inputChannel, outputChannel, kernelSize, stride, padding, dilation, paddingMode, groups, bias, outAsAnyModule) ==
    LET args  == ConvArgs(1, inputChannel, outputChannel, kernelSize, stride, padding, dilation, paddingMode, groups, bias)
        built == Conv1d_opts(inputChannel, outputChannel, kernelSize, stride, padding, dilation, paddingMode, groups, bias)
    IN  IF ModuleCtorRaises(built.opts)
        THEN /\ call' = [op |-> "THSNN_Conv1d_ctor", kind |-> "ctor", args |-> args, outAsAnyModule |-> outAsAnyModule]
             /\ opts' = built.opts
             /\ ret' = [Returned(TRUE, NULL, NullTensor) EXCEPT !.escaped = TRUE]
             /\ UNCHANGED <<modules, anyModules, torch_last_err, outAnySlot, indicesSlot>>
        ELSE CATCH_RETURN_NNModule("THSNN_Conv1d_ctor", args, built, outAsAnyModule)

THSNN_Conv1d_ctor(inputChannel, outputChannel, kernelSize, stride, padding, dilation, paddingMode, groups, bias, outAsAnyModule) ==
    CATCH_RETURN_NNModule("THSNN_Conv1d_ctor",
        ConvArgs(1, inputChannel, outputChannel, kernelSize, stride, padding, dilation,
                 paddingMode, groups, bias),
        Conv1d_opts(inputChannel, outputChannel, kernelSize, stride, padding, dilation,
                    paddingMode, groups, bias),
        outAsAnyModule)

(* Variant of THSNN_ConvNd_ctor that takes a description left in the slot  *)
(* by an earlier call for a fault of its own.                              *)
THSNN_ConvNd_ctor_staleError(D, inputChannel, outputChannel, kernelSize, stride, padding, dilation, paddingMode, groups, bias, outAsAnyModule) ==
    LET args  == ConvArgs(D, inputChannel, outputChannel, kernelSize, stride, padding, dilation, paddingMode, groups, bias)
        built == Conv_opts(D, inputChannel, outputChannel, kernelSize, stride, padding, dilation, paddingMode, groups, bias)
    IN  IF torch_last_err # NoError
        THEN /\ call' = [op |-> "THSNN_ConvNd_ctor", kind |-> "ctor", args |-> args, outAsAnyModule |-> outAsAnyModule]
             /\ opts' = built.opts
             /\ ret' = Returned(TRUE, NULL, NullTensor)
             /\ UNCHANGED <<modules, anyModules, torch_last_err, outAnySlot, indicesSlot>>
        ELSE CATCH_RETURN_NNModule("THSNN_ConvNd_ctor", args, built, outAsAnyModule)

(* THSNN_Conv2d_ctor and THSNN_Conv3d_ctor.                                *)
THSNN_ConvNd_ctor(D, inputChannel, outputChannel, kernelSize, stride, padding, dilation, paddingMode, groups, bias, outAsAnyModule) ==
    CATCH_RETURN_NNModule("THSNN_ConvNd_ctor",
        ConvArgs(D, inputChannel, outputChannel, kernelSize, stride, padding, dilation,
                 paddingMode, groups, bias),
        Conv_opts(D, inputChannel, outputChannel, kernelSize, stride, padding, dilation,
                  paddingMode, groups, bias),
        outAsAnyModule)

THSNN_Conv2d_ctor_1(inputChannel, outputChannel, kernelX, kernelY, strideX, strideY, paddingX, paddingY, dilationX, dilationY, paddingMode, groups, bias, outAsAnyModule) ==
    CATCH_RETURN_NNModule("THSNN_Conv2d_ctor_1",
        [D |-> 2, inputChannel |-> inputChannel, outputChannel |-> outputChannel,
         kernel |-> <<kernelX, kernelY>>, stride |-> <<strideX, strideY>>,
         padding |-> <<paddingX, paddingY>>, dilation |-> <<dilationX, dilationY>>,
         paddingMode |-> paddingMode, groups |-> groups, bias |-> bias],
        Conv2d_opts_1(inputChannel, outputChannel, kernelX, kernelY, strideX, strideY,
                      paddingX, paddingY, dilationX, dilationY, paddingMode, groups, bias),
        outAsAnyModule)

THSNN_Conv3d_ctor_1(inputChannel, outputChannel, kernelX, kernelY, kernelZ, strideX, strideY, strideZ, paddingX, paddingY, paddingZ, dilationX, dilationY, dilationZ, paddingMode, groups, bias, outAsAnyModule) ==
    CATCH_RETURN_NNModule("THSNN_Conv3d_ctor_1",
        [D |-> 3, inputChannel |-> inputChannel, outputChannel |-> outputChannel,
         kernel |-> <<kernelX, kernelY, kernelZ>>, stride |-> <<strideX, strideY, strideZ>>,
         padding |-> <<paddingX, paddingY, paddingZ>>,
         dilation |-> <<dilationX, dilationY, dilationZ>>,
         paddingMode |-> paddingMode, groups |-> groups, bias |-> bias],
        Conv3d_opts_1(inputChannel, outputChannel, kernelX, kernelY, kernelZ,
                      strideX, strideY, strideZ, paddingX, paddingY, paddingZ,
                      dilationX, dilationY, dilationZ, paddingMode, groups, bias),
        outAsAnyModule)

(* THSNN_ConvTranspose1d_ctor, 2d, 3d.                                     *)
THSNN_ConvTransposeNd_ctor(D, inputChannel, outputChannel, kernelSize, stride, padding, output_padding, dilation, paddingMode, groups, bias, outAsAnyModule) ==
    CATCH_RETURN_NNModule("THSNN_ConvTransposeNd_ctor",
        [D |-> D, inputChannel |-> inputChannel, outputChannel |-> outputChannel,
         kernelSize |-> kernelSize, stride |-> stride, padding |-> padding,
         output_padding |-> output_padding, dilation |-> dilation,
         paddingMode |-> paddingMode, groups |-> groups, bias |-> bias],
        ConvTranspose_opts(D, inputChannel, outputChannel, kernelSize, stride, padding,
                           output_padding, dilation, paddingMode, groups, bias),
        outAsAnyModule)

----------------------------------------------------------------------------
(* Forward evaluation and the parameter accessors.                         *)

(* Variant of THSNN_<Module>_forward that boxes the result without         *)
(* ResultTensor: a fault then yields a handle to an undefined tensor.      *)
THSNN_Module_forward_unboxed(module, tensor) ==
    LET m      == modules[module]
        raises == ForwardRaises(m, tensor)
    IN  /\ call' = [op |-> "THSNN_Module_forward", kind |-> "forward",
                    module |-> module, tensor |-> tensor]
        /\ torch_last_err' = IF raises THEN ShapeMismatch ELSE torch_last_err
        /\ ret' = Returned(raises, NULL,
                           Handle(IF raises THEN Undefined ELSE ForwardOutput(module, m, tensor)))
        /\ opts' = NoOpts
        /\ UNCHANGED <<modules, anyModules, outAnySlot, indicesSlot>>

(* THSNN_<Module>_forward, the same body for every module type: the        *)
(* module's forward on the input tensor, inside CATCH_TENSOR.              *)
THSNN_Module_forward(module, tensor) ==
    LET m == modules[module]
    IN  /\ call' = [op |-> "THSNN_Module_forward", kind |-> "forward",
                    module |-> module, tensor |-> tensor]
        /\ CATCH_TENSOR(ForwardRaises(m, tensor), ShapeMismatch, ForwardOutput(module, m, tensor))
        /\ opts' = NoOpts
        /\ UNCHANGED <<modules, anyModules, outAnySlot, indicesSlot>>

(* THSNN_MaxPool{1,2,3}d_forward_with_indices: the pair is computed inside *)
(* CATCH; the two stores that follow it run whether or not it faulted.     *)
THSNN_MaxPool_forward_with_indices(module, tensor) ==
    LET m      == modules[module]
        raises == ForwardRaises(m, tensor)
        res    == IF raises THEN <<Undefined, Undefined>>
                  ELSE <<ForwardOutput(module, m, tensor), ForwardIndices(module, m, tensor)>>
    IN  /\ m.family = "MaxPool"
        /\ call' = [op |-> "THSNN_MaxPool_forward_with_indices", kind |-> "forward_with_indices",
                    module |-> module, tensor |-> tensor]
        /\ torch_last_err' = IF raises THEN ShapeMismatch ELSE torch_last_err
        /\ indicesSlot' = ResultTensor(res[2])
        /\ ret' = Returned(raises, NULL, ResultTensor(res[1]))
        /\ opts' = NoOpts
        /\ UNCHANGED <<modules, anyModules, outAnySlot>>

(* get_weight / get_bias: a new handle to the tensor in the module's slot. *)
get_weight(module) == ResultTensor(modules[module].weight)
get_bias(module)   == ResultTensor(modules[module].bias)

(* THSNN_Conv{1,2,3}d_weight and THSNN_ConvTranspose{1,2,3}d_weight.       *)
THSNN_Conv_weight(module) ==
    /\ IsConvFamily(modules[module].family)
    /\ call' = [op |-> "THSNN_Conv_weight", kind |-> "get", module |-> module, tensor |-> Undefined]
    /\ ret' = Returned(FALSE, NULL, get_weight(module))
    /\ opts' = NoOpts
    /\ UNCHANGED <<modules, anyModules, torch_last_err, outAnySlot, indicesSlot>>

(* THSNN_Conv{1,2,3}d_bias and THSNN_ConvTranspose{1,2,3}d_bias.           *)
THSNN_Conv_bias(module) ==
    /\ IsConvFamily(modules[module].family)
    /\ call' = [op |-> "THSNN_Conv_bias", kind |-> "get", module |-> module, tensor |-> Undefined]
    /\ ret' = Returned(FALSE, NULL, get_bias(module))
    /\ opts' = NoOpts
    /\ UNCHANGED <<modules, anyModules, torch_last_err, outAnySlot, indicesSlot>>

(* set_weight / set_bias: the module's slot now holds the caller's tensor. *)
set_weight(module, weight) == [modules EXCEPT ![module].weight = weight]
set_bias(module, bias)     == [modules EXCEPT ![module].bias = bias]

(* Variant of THSNN_Conv_set_weight that stores into the bias slot.        *)
THSNN_Conv_set_weight_asBias(module, weight) ==
    /\ IsConvFamily(modules[module].family)
    /\ call' = [op |-> "THSNN_Conv_set_weight", kind |-> "set", module |-> module, tensor |-> weight]
    /\ modules' = set_bias(module, weight)
    /\ ret' = Returned(FALSE, NULL, NullTensor)
    /\ opts' = NoOpts
    /\ UNCHANGED <<anyModules, torch_last_err, outAnySlot, indicesSlot>>

(* THSNN_Conv{1,2,3}d_set_weight and THSNN_ConvTranspose{1,2,3}d_set_weight. *)
THSNN_Conv_set_weight(module, weight) ==
    /\ IsConvFamily(modules[module].family)
    /\ call' = [op |-> "THSNN_Conv_set_weight", kind |-> "set", module |-> module, tensor |-> weight]
    /\ modules' = set_weight(module, weight)
    /\ ret' = Returned(FALSE, NULL, NullTensor)
    /\ opts' = NoOpts
    /\ UNCHANGED <<anyModules, torch_last_err, outAnySlot, indicesSlot>>

(* THSNN_Conv{1,2,3}d_set_bias and THSNN_ConvTranspose{1,2,3}d_set_bias.   *)
THSNN_Conv_set_bias(module, bias) ==
    /\ IsConvFamily(modules[module].family)
    /\ call' = [op |-> "THSNN_Conv_set_bias", kind |-> "set", module |-> module, tensor |-> bias]
    /\ modules' = set_bias(module, bias)
    /\ ret' = Returned(FALSE, NULL, NullTensor)
    /\ opts' = NoOpts
    /\ UNCHANGED <<anyModules, torch_last_err, outAnySlot, indicesSlot>>

(* The caller retrieves the recorded fault description, which empties the  *)
(* slot.                                                                   *)
GetLastError ==
    /\ torch_last_err # NoError
    /\ call' = [op |-> "GetLastError", kind |-> "retrieve"]
    /\ ret' = [Returned(FALSE, NULL, NullTensor) EXCEPT !.message = torch_last_err]
    /\ torch_last_err' = NoError
    /\ opts' = NoOpts
    /\ UNCHANGED <<modules, anyModules, outAnySlot, indicesSlot>>

----------------------------------------------------------------------------
(* Inputs the callers are taken to pass.                                   *)

Dims      == {1, 2, 3}                    \* the 1d / 2d / 3d variants
DimsNd    == {2, 3}                       \* variants taking array lengths
Sizes     == 1..MaxSize                   \* kernel, stride, dilation values
Channels  == {1, 2}                       \* channel and group counts
Paddings  == -1..MaxPadding               \* -1 and 0 are the sentinels
PaddingModes == -1..4                     \* the enum 0..3 and a value either side
OutputPaddings == {0, 1}
FillValues == {0, 1}                      \* ConstantPad fill

(* Caller buffers: every array of 1 to 3 sizes, and those with one value   *)
(* repeated.  A call passes a buffer together with its true length.        *)
Arrays    == UNION {[1..n -> Sizes] : n \in Dims}
UniformArrays == {[i \in 1..n |-> v] : n \in Dims, v \in Sizes}
OptionalArrays == {NullArray} \cup UniformArrays
LengthOf(a) == IF a = NullArray THEN 0 ELSE Len(a)

(* Input tensors a caller may hold: batched inputs of rank 3, 4 or 5.      *)
CallerTensors == {CallerTensor(3, 1), CallerTensor(4, 1), CallerTensor(5, 1), CallerTensor(3, 2)}
ParameterTensors == {CallerTensor(1, 1)}

Init ==
    /\ modules = <<>>
    /\ anyModules = <<>>
    /\ torch_last_err = NoError
    /\ call = NoCall
    /\ opts = NoOpts
    /\ ret = Returned(FALSE, NULL, NullTensor)
    /\ outAnySlot = NULL
    /\ indicesSlot = NullTensor

(* A buffer of n equal sizes, as most callers pass.                        *)
Buffer(n) == [i \in 1..n |-> 2]

(* An exported call runs only in a live process: a native fault that       *)
(* crossed the boundary has ended it.                                      *)
Call(A) == ~ret.escaped /\ A

(* Next: any sequence of exported calls on the handles the caller holds.   *)
(* Each constructor is called with a few representative argument vectors,  *)
(* some of which the library rejects; SpecCtor below covers the arguments  *)
(* of a single constructor call in full.                                   *)
Next ==
    \/ \E k \in {Buffer(1), Buffer(2)} :
          Call(THSNN_AvgPool1d_ctor(k, NullArray, TRUE))
    \/ \E k \in {Buffer(2), Buffer(3)} :
          Call(THSNN_AvgPoolNd_ctor(2, k, Len(k), NullArray, 0, FALSE))
    \/ \E k \in {Buffer(1), Buffer(2)} :
          Call(THSNN_AdaptiveAvgPoolNd_ctor(1, k, Len(k), TRUE))
    \/ \E k \in {Buffer(3), Buffer(1)} :
          Call(THSNN_AdaptiveMaxPoolNd_ctor(3, k, Len(k), FALSE))
    \/ Call(THSNN_MaxPool1d_ctor(Buffer(1), NullArray, NullArray, NullArray, FALSE, TRUE))
    \/ \E s \in {NullArray, Buffer(2), Buffer(3)}, out \in BOOLEAN :
          Call(THSNN_MaxPoolNd_ctor(2, Buffer(2), 2, s, LengthOf(s), NullArray, 0, NullArray, 0, FALSE, out))
    \/ \E out \in BOOLEAN : Call(THSNN_ZeroPad2d_ctor(1, out))
    \/ Call(THSNN_ConstantPadNd_ctor(3, 0, 1, TRUE))
    \/ Call(THSNN_ReplicationPadNd_ctor(1, 1, FALSE))
    \/ Call(THSNN_ReflectionPadNd_ctor(2, 1, FALSE))
    \/ \E g \in Channels, out \in BOOLEAN :
          Call(THSNN_Conv1d_ctor(1, 1, 2, 1, 1, 1, 0, g, TRUE, out))
    \/ \E g \in Channels, out \in BOOLEAN :
          Call(THSNN_ConvNd_ctor(2, 1, 1, 2, 1, 1, 1, 0, g, TRUE, out))
    \/ \E g \in Channels :
          Call(THSNN_Conv2d_ctor_1(1, 1, 2, 2, 1, 1, 1, 1, 1, 1, 0, g, TRUE, TRUE))
    \/ \E g \in Channels :
          Call(THSNN_Conv3d_ctor_1(1, 1, 2, 2, 2, 1, 1, 1, 1, 1, 1, 1, 1, 1, 0, g, TRUE, FALSE))
    \/ \E g \in Channels :
          Call(THSNN_ConvTransposeNd_ctor(1, 1, 1, 2, 1, 1, 0, 1, 0, g, FALSE, FALSE))
    \/ \E h \in 1..Len(modules), t \in CallerTensors : Call(THSNN_Module_forward(h, t))
    \/ \E h \in 1..Len(modules), t \in CallerTensors : Call(THSNN_MaxPool_forward_with_indices(h, t))
    \/ \E h \in 1..Len(modules) : Call(THSNN_Conv_weight(h))
    \/ \E h \in 1..Len(modules) : Call(THSNN_Conv_bias(h))
    \/ \E h \in 1..Len(modules), t \in ParameterTensors : Call(THSNN_Conv_set_weight(h, t))
    \/ \E h \in 1..Len(modules), t \in ParameterTensors : Call(THSNN_Conv_set_bias(h, t))
    \/ Call(GetLastError)

Spec == Init /\ [][Next]_vars

----------------------------------------------------------------------------
(* SpecCtor: one constructor call from the initial state, over the whole   *)
(* input space: every buffer and optional array, every padding value and   *)
(* padding mode, every combination of channel and group counts.            *)

Lengths(a) == IF a = NullArray THEN {0} ELSE 1..Len(a)

(* The call is the first the process makes: call = NoCall.                 *)
NextCtor ==
    \/ call = NoCall /\ \E k \in Arrays, s \in {NullArray} \cup Arrays, out \in BOOLEAN :
          Call(THSNN_AvgPool1d_ctor(k, s, out))
    \/ call = NoCall /\ \E D \in DimsNd, k \in Arrays, s \in {NullArray} \cup Arrays, out \in BOOLEAN :
          \E kl \in Lengths(k) : Call(THSNN_AvgPoolNd_ctor(D, k, kl, s, LengthOf(s), out))
    \/ call = NoCall /\ \E D \in Dims, k \in Arrays, out \in BOOLEAN :
          \E kl \in Lengths(k) : Call(THSNN_AdaptiveAvgPoolNd_ctor(D, k, kl, out))
    \/ call = NoCall /\ \E D \in Dims, k \in Arrays, out \in BOOLEAN :
          \E kl \in Lengths(k) : Call(THSNN_AdaptiveMaxPoolNd_ctor(D, k, kl, out))
    \/ call = NoCall /\ \E k \in UniformArrays, s \in OptionalArrays, p \in OptionalArrays, d \in OptionalArrays, c \in BOOLEAN, out \in BOOLEAN :
          Call(THSNN_MaxPool1d_ctor(k, s, p, d, c, out))
    \/ call = NoCall /\ \E D \in DimsNd, k \in UniformArrays, s \in OptionalArrays, p \in OptionalArrays, d \in OptionalArrays, c \in BOOLEAN, out \in BOOLEAN :
          Call(THSNN_MaxPoolNd_ctor(D, k, Len(k), s, LengthOf(s), p, LengthOf(p), d, LengthOf(d), c, out))
    \/ call = NoCall /\ \E p \in Paddings, out \in BOOLEAN : Call(THSNN_ZeroPad2d_ctor(p, out))
    \/ call = NoCall /\ \E D \in Dims, v \in FillValues, p \in Paddings, out \in BOOLEAN :
          Call(THSNN_ConstantPadNd_ctor(D, v, p, out))
    \/ call = NoCall /\ \E D \in Dims, p \in Paddings, out \in BOOLEAN : Call(THSNN_ReplicationPadNd_ctor(D, p, out))
    \/ call = NoCall /\ \E D \in Dims, p \in Paddings, out \in BOOLEAN : Call(THSNN_ReflectionPadNd_ctor(D, p, out))
    \/ call = NoCall /\ \E i \in Channels, o \in Channels, k \in Sizes, s \in Sizes, p \in Paddings, d \in Sizes, m \in PaddingModes, g \in Channels, b \in BOOLEAN, out \in BOOLEAN :
          Call(THSNN_Conv1d_ctor(i, o, k, s, p, d, m, g, b, out))
    \/ call = NoCall /\ \E D \in DimsNd, i \in Channels, o \in Channels, k \in Sizes, s \in Sizes, p \in Paddings, d \in Sizes, m \in PaddingModes, g \in Channels, b \in BOOLEAN, out \in BOOLEAN :
          Call(THSNN_ConvNd_ctor(D, i, o, k, s, p, d, m, g, b, out))
    \* per-axis overloads: equal values on all axes ...
    \/ call = NoCall /\ \E i \in Channels, o \in Channels, k \in Sizes, s \in Sizes, p \in Paddings, d \in Sizes, m \in PaddingModes, g \in Channels, b \in BOOLEAN, out \in BOOLEAN :
          Call(THSNN_Conv2d_ctor_1(i, o, k, k, s, s, p, p, d, d, m, g, b, out))
    \/ call = NoCall /\ \E i \in Channels, o \in Channels, k \in Sizes, s \in Sizes, p \in Paddings, d \in Sizes, m \in PaddingModes, g \in Channels, b \in BOOLEAN, out \in BOOLEAN :
          Call(THSNN_Conv3d_ctor_1(i, o, k, k, k, s, s, s, p, p, p, d, d, d, m, g, b, out))
    \* ... every combination of per-axis paddings and padding modes ...
    \/ call = NoCall /\ \E pX \in Paddings, pY \in Paddings, m \in PaddingModes, s \in Sizes, out \in BOOLEAN :
          Call(THSNN_Conv2d_ctor_1(1, 1, 2, 2, s, s, pX, pY, 1, 1, m, 1, TRUE, out))
    \/ call = NoCall /\ \E pX \in Paddings, pY \in Paddings, pZ \in Paddings, m \in PaddingModes, s \in Sizes, out \in BOOLEAN :
          Call(THSNN_Conv3d_ctor_1(1, 1, 2, 2, 2, s, s, s, pX, pY, pZ, 1, 1, 1, m, 1, TRUE, out))
    \* ... and every combination of per-axis kernel, stride and dilation.
    \/ call = NoCall /\ \E kX \in Sizes, kY \in Sizes, sX \in Sizes, sY \in Sizes, dX \in Sizes, dY \in Sizes, out \in BOOLEAN :
          Call(THSNN_Conv2d_ctor_1(1, 1, kX, kY, sX, sY, 1, 2, dX, dY, 0, 1, TRUE, out))
    \/ call = NoCall /\ \E kX \in Sizes, kY \in Sizes, kZ \in Sizes, sX \in Sizes, sY \in Sizes, sZ \in Sizes, dX \in Sizes, dY \in Sizes, dZ \in Sizes :
          Call(THSNN_Conv3d_ctor_1(1, 1, kX, kY, kZ, sX, sY, sZ, 1, 2, 2, dX, dY, dZ, 0, 1, TRUE, FALSE))
    \/ call = NoCall /\ \E D \in Dims, i \in Channels, o \in Channels, k \in Sizes, s \in Sizes, p \in Paddings, op \in OutputPaddings, d \in Sizes, m \in PaddingModes, g \in Channels, b \in BOOLEAN, out \in BOOLEAN :
          Call(THSNN_ConvTransposeNd_ctor(D, i, o, k, s, p, op, d, m, g, b, out))

SpecCtor == Init /\ [][NextCtor]_vars

----------------------------------------------------------------------------
(* Properties.                                                             *)

(* C1: when building the options or constructing the module raises, a      *)
(* constructor returns a null module handle, records the fault's           *)
(* description in the last-error slot, lets no fault escape, and leaves no *)
(* partial module: the heap holds no module or view and the caller's       *)
(* outAsAnyModule slot is not written.                                     *)
C1_CtorFaultCaught ==
    LET raised == call.kind = "ctor" /\ (opts = NoOpts \/ ModuleCtorRaises(opts))
    IN  raised =>
          /\ ret.fault /\ ~ret.escaped
          /\ ret.module = NULL
          /\ torch_last_err = (IF opts = NoOpts THEN WrongLength ELSE InvalidOptions)
          /\ modules = <<>> /\ anyModules = <<>>
          /\ outAnySlot = NULL

(* A constructor call that supplied outAsAnyModule and faulted while the   *)
(* module was being constructed.                                           *)
C1_Witness ==
    /\ call.kind = "ctor" /\ call.outAsAnyModule
    /\ opts # NoOpts /\ ModuleCtorRaises(opts)
    /\ ret.fault

(* C2: a forward call whose computation raises returns a null tensor       *)
(* handle, without a native fault, and leaves the fault's description in   *)
(* the last-error slot; one that does not raise returns a non-null handle  *)
(* to the tensor the library produced.                                     *)
C2_ForwardBoundary ==
    call.kind = "forward" =>
        LET m == modules[call.module]
        IN  /\ ~ret.escaped
            /\ IF ForwardRaises(m, call.tensor)
               THEN /\ ret.fault
                    /\ ret.tensor.null
                    /\ torch_last_err = ShapeMismatch
               ELSE /\ ~ret.fault
                    /\ ~ret.tensor.null
                    /\ ret.tensor.tensor = ForwardOutput(call.module, m, call.tensor)

(* A convolution was given an input with the wrong channel count.          *)
C2_Witness ==
    /\ call.kind = "forward"
    /\ modules[call.module].family = "Conv"
    /\ call.tensor.rank = modules[call.module].D + 2
    /\ call.tensor.channels # modules[call.module].options.in_channels
    /\ ret.tensor.null

(* C3: forward_with_indices populates both outputs on success, and on      *)
(* failure returns null and does not write the caller's indices slot.      *)
C3_IndicesUntouchedOnFault ==
    [][call'.kind = "forward_with_indices" =>
         IF ret'.fault
         THEN ret'.tensor.null /\ indicesSlot' = indicesSlot
         ELSE ~ret'.tensor.null /\ ~indicesSlot'.null]_vars

(* C4: a fault in one call corrupts nothing a later call needs.  A call    *)
(* faults exactly when its own arguments make the library raise, whatever  *)
(* faulted before; a faulting call leaves the modules, the views and the   *)
(* caller's view slot as they were and stores its description; a call that *)
(* does not fault returns a non-null result and leaves the last-error slot *)
(* holding the most recent fault until the caller retrieves it.            *)
C4_FaultsDoNotCorrupt ==
    [][LET raised ==
             CASE call'.kind = "ctor" -> opts' = NoOpts \/ ModuleCtorRaises(opts')
               [] call'.kind \in {"forward", "forward_with_indices"} ->
                      ForwardRaises(modules[call'.module], call'.tensor)
               [] OTHER -> FALSE
           description ==
             CASE call'.kind = "ctor" -> IF opts' = NoOpts THEN WrongLength ELSE InvalidOptions
               [] OTHER -> ShapeMismatch
       IN  /\ ~ret'.escaped
           /\ ret'.fault = raised
           /\ raised => /\ modules' = modules
                        /\ anyModules' = anyModules
                        /\ outAnySlot' = outAnySlot
                        /\ torch_last_err' = description
           /\ ~raised => /\ call'.kind # "retrieve" => torch_last_err' = torch_last_err
                         /\ call'.kind = "ctor" => ret'.module # NULL
                         /\ call'.kind \in {"forward", "forward_with_indices"} => ~ret'.tensor.null
      ]_vars

(* A forward call succeeded while the slot still held the description of   *)
(* an earlier constructor fault.                                           *)
C4_Witness ==
    /\ call.kind = "forward" /\ ~ret.fault /\ ~ret.tensor.null
    /\ torch_last_err = InvalidOptions

(* C5: the tensor handed to set_weight (set_bias) is the one a following   *)
(* weight (bias) getter returns, the same tensor and not a copy; a setter  *)
(* changes its own slot of its own module only, and a getter changes no    *)
(* module.                                                                 *)
C5_SetThenGetIsIdentity ==
    [][/\ call'.op = "THSNN_Conv_set_weight" =>
            /\ modules'[call'.module].weight = call'.tensor
            /\ modules' = [modules EXCEPT ![call'.module].weight = call'.tensor]
       /\ call'.op = "THSNN_Conv_set_bias" =>
            /\ modules'[call'.module].bias = call'.tensor
            /\ modules' = [modules EXCEPT ![call'.module].bias = call'.tensor]
       /\ call'.op = "THSNN_Conv_weight" =>
            /\ modules' = modules
            /\ ret'.tensor = ResultTensor(modules[call'.module].weight)
            /\ (call.op = "THSNN_Conv_set_weight" /\ call.module = call'.module) =>
                   ret'.tensor = Handle(call.tensor)
       /\ call'.op = "THSNN_Conv_bias" =>
            /\ modules' = modules
            /\ ret'.tensor = ResultTensor(modules[call'.module].bias)
            /\ (call.op = "THSNN_Conv_set_bias" /\ call.module = call'.module) =>
                   ret'.tensor = Handle(call.tensor)
      ]_vars

(* The weight getter returned the caller's tensor, set earlier, on a       *)
(* module whose bias is still its own.                                     *)
C5_Witness ==
    /\ call.op = "THSNN_Conv_weight"
    /\ ret.tensor = Handle(CallerTensor(1, 1))
    /\ modules[call.module].bias.src = "bias"

(* C6: a per-axis overload called with one value on all axes builds the    *)
(* options the single-scalar overload builds from that value.              *)
C6_PerAxisEqualsScalar ==
    LET a == call.args
        uniform(D) ==
            \A i \in 1..D : /\ a.kernel[i] = a.kernel[1]
                            /\ a.stride[i] = a.stride[1]
                            /\ a.padding[i] = a.padding[1]
                            /\ a.dilation[i] = a.dilation[1]
        scalar(D) ==
            Conv_opts(D, a.inputChannel, a.outputChannel, a.kernel[1], a.stride[1],
                      a.padding[1], a.dilation[1], a.paddingMode, a.groups, a.bias).opts
    IN  /\ (call.op = "THSNN_Conv2d_ctor_1" /\ uniform(2)) => opts = scalar(2)
        /\ (call.op = "THSNN_Conv3d_ctor_1" /\ uniform(3)) => opts = scalar(3)

(* The 3d per-axis overload with the "valid" sentinel on all three axes.   *)
C6_Witness ==
    /\ call.op = "THSNN_Conv3d_ctor_1"
    /\ call.args.padding = <<0, 0, 0>>
    /\ call.args.kernel = <<2, 2, 2>>
    /\ opts.padding = kValid
    /\ ~ret.fault

(* C7 as stated: every convolution and transposed-convolution constructor  *)
(* given the padding sentinel -1 selects the "same" policy.                *)
C7_SameSentinelEveryCtor ==
    LET a == call.args
    IN  /\ (call.op \in {"THSNN_Conv1d_ctor", "THSNN_ConvNd_ctor", "THSNN_ConvTransposeNd_ctor"}
              /\ a.padding = -1) => opts.padding = kSame
        /\ (call.op \in {"THSNN_Conv2d_ctor_1", "THSNN_Conv3d_ctor_1"}
              /\ a.padding[1] = -1) => opts.padding = kSame

(* C7 as amended: the convolution constructors select "same" for -1 (the   *)
(* per-axis overloads for paddingX = -1); the transposed-convolution       *)
(* constructors pass -1 on as a numeric width on every axis.               *)
C7_SameSentinelConv ==
    LET a == call.args
    IN  /\ (call.op \in {"THSNN_Conv1d_ctor", "THSNN_ConvNd_ctor"} /\ a.padding = -1) =>
               opts.padding = kSame
        /\ (call.op \in {"THSNN_Conv2d_ctor_1", "THSNN_Conv3d_ctor_1"} /\ a.padding[1] = -1) =>
               opts.padding = kSame
        /\ (call.op = "THSNN_ConvTransposeNd_ctor" /\ a.padding = -1) =>
               opts.padding = Arr([i \in 1..a.D |-> -1])

(* A 1d convolution built with -1 and stride 1, which the library accepts. *)
C7_Witness ==
    /\ call.op = "THSNN_Conv1d_ctor"
    /\ call.args.padding = -1 /\ call.args.stride = 1
    /\ opts.padding = kSame
    /\ ~ret.fault /\ ret.module # NULL

(* C8: for paddingMode 0..3 the options handed to module construction      *)
(* carry the named fill policy: zeros, reflect, replicate, circular.       *)
C8_PaddingModeNamed ==
    LET named(m) == CASE m = 0 -> kZeros [] m = 1 -> kReflect
                      [] m = 2 -> kReplicate [] m = 3 -> kCircular
    IN  (/\ call.op \in {"THSNN_Conv1d_ctor", "THSNN_ConvNd_ctor", "THSNN_Conv2d_ctor_1",
                         "THSNN_Conv3d_ctor_1", "THSNN_ConvTransposeNd_ctor"}
         /\ call.args.paddingMode \in 0..3)
        => opts.padding_mode = named(call.args.paddingMode)

(* A transposed 3d convolution asked for replicate fill.                   *)
C8_Witness ==
    /\ call.op = "THSNN_ConvTransposeNd_ctor" /\ call.args.D = 3
    /\ call.args.paddingMode = 2
    /\ opts.padding_mode = kReplicate

(* C9: in the pooling constructors a null optional array leaves its option *)
(* at the library's default and a non-null one is applied with the values  *)
(* supplied, each parameter on its own.                                    *)
C9_NullMeansDefault ==
    LET a == call.args
        applied(param, len, slot) ==
            IF param = NullArray THEN slot = LibDefault
            ELSE slot = Arr(SubSeq(param, 1, len))
    IN  /\ (call.op = "THSNN_AvgPool1d_ctor" /\ opts # NoOpts) =>
               applied(a.stride, 1, opts.stride)
        /\ (call.op = "THSNN_AvgPoolNd_ctor" /\ opts # NoOpts) =>
               applied(a.stride, a.strideLength, opts.stride)
        /\ (call.op = "THSNN_MaxPool1d_ctor" /\ opts # NoOpts) =>
               /\ applied(a.stride, 1, opts.stride)
               /\ applied(a.padding, 1, opts.padding)
               /\ applied(a.dilation, 1, opts.dilation)
        /\ (call.op = "THSNN_MaxPoolNd_ctor" /\ opts # NoOpts) =>
               /\ applied(a.stride, a.strideLength, opts.stride)
               /\ applied(a.padding, a.paddingLength, opts.padding)
               /\ applied(a.dilation, a.dilationLength, opts.dilation)

(* A 3d max pool given a padding array but neither stride nor dilation.    *)
C9_Witness ==
    /\ call.op = "THSNN_MaxPoolNd_ctor" /\ call.args.D = 3
    /\ call.args.stride = NullArray /\ call.args.dilation = NullArray
    /\ call.args.padding = <<1, 1, 1>>
    /\ opts # NoOpts /\ opts.padding = Arr(<<1, 1, 1>>) /\ opts.stride = LibDefault
    /\ ~ret.fault

(* C10: a successful constructor call creates exactly one module, whose    *)
(* handle it returns; it creates a view exactly when outAsAnyModule was    *)
(* supplied, and that view wraps the module just returned; no exported     *)
(* call removes or replaces a module or a view already constructed.        *)
C10_OneModuleSameInstance ==
    [][/\ (call'.kind = "ctor" /\ ~ret'.fault) =>
            /\ Len(modules') = Len(modules) + 1
            /\ ret'.module = Len(modules')
            /\ IF call'.outAsAnyModule
               THEN /\ Len(anyModules') = Len(anyModules) + 1
                    /\ outAnySlot' = Len(anyModules')
                    /\ anyModules'[outAnySlot'].module = ret'.module
               ELSE /\ anyModules' = anyModules
                    /\ outAnySlot' = outAnySlot
       /\ Len(modules') >= Len(modules)
       /\ \A h \in 1..Len(modules) :
            /\ modules'[h].family = modules[h].family
            /\ modules'[h].D = modules[h].D
            /\ modules'[h].options = modules[h].options
       /\ Len(anyModules') >= Len(anyModules)
       /\ \A v \in 1..Len(anyModules) : anyModules'[v] = anyModules[v]
      ]_vars

(* A constructor returned a module together with a view of it.             *)
C10_Witness ==
    /\ call.kind = "ctor" /\ call.outAsAnyModule /\ ~ret.fault
    /\ ret.module # NULL /\ outAnySlot # NULL
    /\ anyModules[outAnySlot].module = ret.module

(* C11: in every convolution constructor the fill mode is layered on       *)
(* options that already carry the padding, and it is a slot of its own:    *)
(* whatever paddingMode is, the padding width or policy, stride, dilation, *)
(* groups and bias of the options are those the other arguments give.      *)
C11_FillModeFrame ==
    LET a == call.args
        rep(v) == Arr([i \in 1..a.D |-> v])
        frame(padd, stride, dilation) ==
            /\ opts.padding = padd
            /\ opts.stride = stride
            /\ opts.dilation = dilation
            /\ opts.groups = a.groups
            /\ opts.bias = a.bias
            /\ opts = ApplyPaddingMode([opts EXCEPT !.padding_mode = "LibDefault"], a.paddingMode)
    IN  /\ call.op = "THSNN_Conv1d_ctor" =>
               frame(IF a.padding = -1 THEN kSame ELSE rep(a.padding),
                     rep(a.stride), rep(a.dilation))
        /\ call.op = "THSNN_ConvNd_ctor" =>
               frame(IF a.padding = -1 THEN kSame
                     ELSE IF a.padding = 0 THEN kValid ELSE rep(a.padding),
                     rep(a.stride), rep(a.dilation))
        /\ call.op \in {"THSNN_Conv2d_ctor_1", "THSNN_Conv3d_ctor_1"} =>
               frame(IF a.padding[1] = -1 THEN kSame
                     ELSE IF a.padding[1] = 0 THEN kValid ELSE Arr(a.padding),
                     Arr(a.stride), Arr(a.dilation))
        /\ call.op = "THSNN_ConvTransposeNd_ctor" =>
               /\ frame(rep(a.padding), rep(a.stride), rep(a.dilation))
               /\ opts.output_padding = rep(a.output_padding)

(* A 2d convolution with the "same" policy and circular fill, and a        *)
(* dilation other than the stride.                                         *)
C11_Witness ==
    /\ call.op = "THSNN_ConvNd_ctor" /\ call.args.D = 2
    /\ call.args.padding = -1 /\ call.args.paddingMode = 3
    /\ call.args.stride = 1 /\ call.args.dilation = 2
    /\ opts.padding = kSame /\ opts.padding_mode = kCircular
    /\ opts.dilation = Arr(<<2, 2>>)

(* C12: in the per-axis overloads paddingX alone decides the policy: -1    *)
(* selects "same" and 0 selects "valid" whatever the other axes carry, and *)
(* only for another paddingX do the axes' values reach the options, a -1   *)
(* or 0 on a later axis then being a numeric width.                        *)
C12_PaddingXDecides ==
    LET a == call.args
    IN  call.op \in {"THSNN_Conv2d_ctor_1", "THSNN_Conv3d_ctor_1"} =>
            /\ a.padding[1] = -1 => opts.padding = kSame
            /\ a.padding[1] = 0 => opts.padding = kValid
            /\ a.padding[1] \notin {-1, 0} =>
                   /\ opts.padding = Arr(a.padding)
                   /\ \A i \in 1..a.D : opts.padding.values[i] = a.padding[i]

(* paddingX = 0 with paddingY = 2 gave the "valid" policy.                 *)
C12_Witness ==
    /\ call.op = "THSNN_Conv2d_ctor_1"
    /\ call.args.padding = <<0, 2>>
    /\ opts.padding = kValid

(* C13: a paddingMode outside 0..3 leaves the options as they were before  *)
(* ApplyPaddingMode, the fill mode staying the library's default; the call *)
(* faults only if the library rejects the other options, and otherwise     *)
(* returns a module and records nothing in the last-error slot.            *)
C13_BadModeIgnored ==
    LET a == call.args
    IN  (/\ call.op \in {"THSNN_Conv1d_ctor", "THSNN_ConvNd_ctor", "THSNN_Conv2d_ctor_1",
                         "THSNN_Conv3d_ctor_1", "THSNN_ConvTransposeNd_ctor"}
         /\ a.paddingMode \notin 0..3)
        => /\ opts.padding_mode = "LibDefault"
           /\ ret.fault = ModuleCtorRaises(opts)
           /\ ~ret.escaped
           /\ IF ret.fault
              THEN torch_last_err = InvalidOptions
              ELSE torch_last_err = NoError /\ ret.module # NULL

(* A 1d convolution built with paddingMode 4 and otherwise valid options.  *)
C13_Witness ==
    /\ call.op = "THSNN_Conv1d_ctor"
    /\ call.args.paddingMode = 4
    /\ opts.padding_mode = "LibDefault"
    /\ ~ret.fault /\ ret.module # NULL
    /\ torch_last_err = NoError

====
